---- MODULE Spec2Model ----
(***************************************************************************)
(* Model of the Schedule Monitoring Calculator (src/app.py).               *)
(*                                                                         *)
(* Representation of Python values:                                        *)
(*   date          <<y, m, d>>   (compared lexicographically, as date is)  *)
(*   time          <<h, mi>>     (compared lexicographically, as time is)  *)
(*   None          <<>>                                                    *)
(*   float hours   the integer number of hours (all weights are 2.0/4.0)   *)
(*   str to parse  the sequence of its whitespace-separated words; a word  *)
(*                 is <<m, d, y>> for text shaped "mm/dd/yyyy", <<h, mi>>  *)
(*                 for four digits "hhmi", and <<>> for any other text     *)
(***************************************************************************)
EXTENDS Integers, Sequences, FiniteSets, TLC

VARIABLES
    \* the Calculate handler (module level script, lines 113-165)
    start, end, source, segments, raw_parts, pc, idx, parsed, errors,
    in_range, out_range, st_errors, ignored, sched, results, exc,
    \* a direct use of class Schedule
    start_date, end_date, monitored_entries, spc, k, by_day, self, raised, totals,
    \* a direct call of is_normal_window
    wd, wt, wret,
    \* a direct call of parse_date_time
    entry_str, pret

hvars == <<start, end, source, segments, raw_parts, pc, idx, parsed, errors,
           in_range, out_range, st_errors, ignored, sched, results, exc>>
svars == <<start_date, end_date, monitored_entries, spc, k, by_day, self, raised, totals>>
wvars == <<wd, wt, wret>>
pvars == <<entry_str, pret>>
vars == <<hvars, svars, wvars, pvars>>

\* ------------------------------------------------------------------ bounds
MaxEntries == 3
MaxTokens == 3
MaxWords == 3
NumDays == 3

\* ------------------------------------------------------------- value sets
None == <<>>

\* the dates 09/18/2025 (a Thursday) onwards
Dates == {<<2025, 9, dd>> : dd \in 18..(17 + NumDays)}
\* one full week, Monday 09/15/2025 .. Sunday 09/21/2025
WeekDates == {<<2025, 9, dd>> : dd \in 15..21}

SchedTimes == {None, <<7, 0>>, <<18, 0>>}
WindowTimes == {None} \cup {<<h, mi>> : h \in {0, 7, 8, 12, 16, 17, 18, 23}, mi \in {0, 59}}

\* ---------------------------------------------------------------- datetime
IsLeap(y) == (y % 4 = 0) /\ ((y % 100 # 0) \/ (y % 400 = 0))

DaysInMonth(y, m) ==
    IF m = 2 THEN (IF IsLeap(y) THEN 29 ELSE 28)
    ELSE IF m \in {4, 6, 9, 11} THEN 30 ELSE 31

RECURSIVE DaysBeforeMonth(_, _)
DaysBeforeMonth(y, m) ==
    IF m = 1 THEN 0 ELSE DaysBeforeMonth(y, m - 1) + DaysInMonth(y, m - 1)

\* date.toordinal(): 01/01/0001 is day 1
ToOrdinal(dt) ==
    LET y == dt[1] - 1
    IN  y * 365 + (y \div 4) - (y \div 100) + (y \div 400)
        + DaysBeforeMonth(dt[1], dt[2]) + dt[3]

\* date.weekday(): Monday is 0, Sunday is 6
Weekday(dt) == (ToOrdinal(dt) + 6) % 7

\* a < b on dates and on times (tuple order)
RECURSIVE TupleLT(_, _)
TupleLT(a, b) ==
    IF a = <<>> \/ b = <<>> THEN a = <<>> /\ b # <<>>
    ELSE IF Head(a) # Head(b) THEN Head(a) < Head(b)
    ELSE TupleLT(Tail(a), Tail(b))

TupleLE(a, b) == a = b \/ TupleLT(a, b)

\* datetime.strptime(w, "%m/%d/%Y") succeeds
StrptimeDateOk(w) ==
    /\ Len(w) = 3
    /\ w[1] \in 1..12
    /\ w[3] \in 1..9999
    /\ w[2] \in 1..DaysInMonth(w[3], w[1])

\* datetime.strptime(w, "%m/%d/%Y").date()
StrptimeDate(w) == <<w[3], w[1], w[2]>>

\* datetime.strptime(w, "%H%M") succeeds
StrptimeTimeOk(w) == Len(w) = 2 /\ w[1] \in 0..23 /\ w[2] \in 0..59

\* datetime.strptime(w, "%H%M").time()
StrptimeTime(w) == <<w[1], w[2]>>

\* ------------------------------------------------------------ classification
WEEKDAY_START == <<8, 0>>
WEEKDAY_END == <<17, 0>>

\* faulty variant: Saturday counted as a weekday
is_weekday_sat(d) == Weekday(d) < 6

is_weekday(d) == Weekday(d) < 5

\* faulty variant: the upper bound of the window made inclusive
is_normal_window_incl(d, t) ==
    IF ~is_weekday(d) THEN FALSE
    ELSE IF t = None THEN TRUE
    ELSE TupleLE(WEEKDAY_START, t) /\ TupleLE(t, WEEKDAY_END)

is_normal_window(d, t) ==
    IF ~is_weekday(d) THEN FALSE
    ELSE IF t = None THEN TRUE
    ELSE TupleLE(WEEKDAY_START, t) /\ TupleLT(t, WEEKDAY_END)

\* faulty variant: "first plus last" instead of "first or last"
base_hours_plus(is_first, is_last) ==
    IF is_first /\ is_last THEN 8 ELSE IF is_first \/ is_last THEN 4 ELSE 2

base_hours(is_first, is_last) == IF is_first \/ is_last THEN 4 ELSE 2

\* ------------------------------------------------------------------ parser
ErrEmpty == <<"Empty entry">>
ErrDate(w) == <<"Invalid date", w>>
ErrTime(w) == <<"Invalid time", w>>
ErrBad(s) == <<"Bad entry", s>>

\* faulty variant: every word after the date is taken for the time, no "Bad entry"
parse_date_time_nobad(s) ==
    IF s = <<>> THEN <<None, None, ErrEmpty>>
    ELSE IF ~StrptimeDateOk(s[1]) THEN <<None, None, ErrDate(s[1])>>
    ELSE IF Len(s) >= 2
         THEN IF ~StrptimeTimeOk(s[2]) THEN <<None, None, ErrTime(s[2])>>
              ELSE <<StrptimeDate(s[1]), StrptimeTime(s[2]), None>>
    ELSE <<StrptimeDate(s[1]), None, None>>

\* returns the triple (d, t, err)
parse_date_time(s) ==
    IF s = <<>> THEN <<None, None, ErrEmpty>>
    ELSE IF ~StrptimeDateOk(s[1]) THEN <<None, None, ErrDate(s[1])>>
    ELSE IF Len(s) = 2
         THEN IF ~StrptimeTimeOk(s[2]) THEN <<None, None, ErrTime(s[2])>>
              ELSE <<StrptimeDate(s[1]), StrptimeTime(s[2]), None>>
    ELSE IF Len(s) > 2 THEN <<None, None, ErrBad(s)>>
    ELSE <<StrptimeDate(s[1]), None, None>>

\* ---------------------------------------------------------------- Schedule
\* faulty variant: the upper end of the range is not checked
InRange_noupper(s, d, e) == TupleLE(s, d)

\* faulty variant: the lower end of the range is not checked
InRange_nolower(s, d, e) == TupleLE(d, e)

InRange(s, d, e) == TupleLE(s, d) /\ TupleLE(d, e)

\* faulty variant: equal dates rejected too
end_before_start_eq(s, e) == TupleLE(e, s)

\* line 31: end_date < start_date
end_before_start(s, e) == TupleLT(e, s)

\* faulty variant: latest wins
by_day_put_last(bd, s, e, p) ==
    IF InRange(s, p[1], e)
    THEN [x \in (DOMAIN bd) \cup {p[1]} |-> IF x = p[1] THEN p[2] ELSE bd[x]]
    ELSE bd

\* one iteration of the loop over monitored_entries: insert-if-absent
by_day_put(bd, s, e, p) ==
    IF InRange(s, p[1], e) /\ p[1] \notin DOMAIN bd
    THEN [x \in (DOMAIN bd) \cup {p[1]} |-> IF x = p[1] THEN p[2] ELSE bd[x]]
    ELSE bd

\* sorted(by_day): the keys in ascending order
RECURSIVE sorted(_)
sorted(S) ==
    IF S = {} THEN <<>>
    ELSE LET m == CHOOSE x \in S : \A y \in S : TupleLE(x, y)
         IN  <<m>> \o sorted(S \ {m})

\* [Entry(d, by_day[d]) for d in sorted(by_day)]
make_entries(bd) ==
    LET keys == sorted(DOMAIN bd)
    IN  [i \in 1..Len(keys) |-> [d |-> keys[i], t |-> bd[keys[i]]]]

RECURSIVE fill_by_day(_, _, _, _)
fill_by_day(bd, s, e, me) ==
    IF me = <<>> THEN bd
    ELSE fill_by_day(by_day_put(bd, s, e, Head(me)), s, e, Tail(me))

\* Schedule(s, e, me) for end_date >= start_date
Schedule(s, e, me) ==
    [start_date |-> s, end_date |-> e,
     entries |-> make_entries(fill_by_day(<<>>, s, e, me))]

dry_time(obj) ==
    LET days == ToOrdinal(obj.end_date) - ToOrdinal(obj.start_date)
    IN  IF days > 0 THEN days ELSE 0

\* the loop of _split_hours over entries[i..], from the running sums acc
RECURSIVE split_loop(_, _, _)
split_loop(es, i, acc) ==
    IF i > Len(es) THEN acc
    ELSE LET e == es[i]
             hrs == base_hours(e.d = es[1].d, e.d = es[Len(es)].d)
         IN  IF is_normal_window(e.d, e.t)
             THEN split_loop(es, i + 1, <<acc[1] + hrs, acc[2]>>)
             ELSE split_loop(es, i + 1, <<acc[1], acc[2] + hrs>>)

_split_hours(obj) ==
    IF obj.entries = <<>> THEN <<0, 0>>
    ELSE split_loop(obj.entries, 1, <<0, 0>>)

monitoring_hours(obj) == _split_hours(obj)[1]

after_hours(obj) == _split_hours(obj)[2]

total_monitoring_hours(obj) == _split_hours(obj)[1] + _split_hours(obj)[2]

\* ------------------------------------------- specification: class Schedule
RECURSIVE SeqsUpTo(_, _)
SeqsUpTo(S, n) ==
    IF n = 0 THEN {<<>>}
    ELSE LET shorter == SeqsUpTo(S, n - 1)
         IN  shorter \cup {Append(q, x) : q \in shorter, x \in S}

HandlerIdle ==
    /\ start = <<2025, 9, 18>> /\ end = <<2025, 9, 18>>
    /\ source = "text" /\ segments = <<>> /\ raw_parts = <<>>
    /\ pc = "off" /\ idx = 0 /\ parsed = <<>> /\ errors = <<>>
    /\ in_range = <<>> /\ out_range = <<>> /\ st_errors = <<>>
    /\ ignored = <<>> /\ sched = <<>> /\ results = <<>> /\ exc = "none"

ScheduleIdle ==
    /\ start_date = <<2025, 9, 18>> /\ end_date = <<2025, 9, 18>>
    /\ monitored_entries = <<>> /\ spc = "off" /\ k = 0 /\ by_day = <<>>
    /\ self = <<>> /\ raised = "none" /\ totals = <<>>

WindowIdle == wd = <<2025, 9, 18>> /\ wt = None /\ wret = <<>>

ParseIdle == entry_str = <<>> /\ pret = <<>>

SInit ==
    /\ start_date \in Dates
    /\ end_date \in Dates
    /\ monitored_entries \in SeqsUpTo(Dates \X SchedTimes, MaxEntries)
    /\ spc = "new" /\ k = 0 /\ by_day = <<>>
    /\ self = <<>> /\ raised = "none" /\ totals = <<>>
    /\ HandlerIdle /\ WindowIdle /\ ParseIdle

\* lines 31-32: the range check raises
ScheduleRaise ==
    /\ spc = "new"
    /\ end_before_start(start_date, end_date)
    /\ raised' = "ValueError"
    /\ spc' = "raised"
    /\ UNCHANGED <<start_date, end_date, monitored_entries, k, by_day, self, totals>>
    /\ UNCHANGED <<hvars, wvars, pvars>>

\* lines 31-36: the range check passes, by_day starts empty
ScheduleBegin ==
    /\ spc = "new"
    /\ ~end_before_start(start_date, end_date)
    /\ by_day' = <<>>
    /\ k' = 1
    /\ spc' = "loop"
    /\ UNCHANGED <<start_date, end_date, monitored_entries, self, raised, totals>>
    /\ UNCHANGED <<hvars, wvars, pvars>>

\* lines 37-39: one iteration of the loop
ScheduleLoop ==
    /\ spc = "loop"
    /\ k <= Len(monitored_entries)
    /\ by_day' = by_day_put(by_day, start_date, end_date, monitored_entries[k])
    /\ k' = k + 1
    /\ UNCHANGED <<start_date, end_date, monitored_entries, spc, self, raised, totals>>
    /\ UNCHANGED <<hvars, wvars, pvars>>

\* line 40: the entries are stored, construction returns
ScheduleStore ==
    /\ spc = "loop"
    /\ k > Len(monitored_entries)
    /\ self' = <<[start_date |-> start_date, end_date |-> end_date,
                  entries |-> make_entries(by_day)]>>
    /\ spc' = "built"
    /\ UNCHANGED <<start_date, end_date, monitored_entries, k, by_day, raised, totals>>
    /\ UNCHANGED <<hvars, wvars, pvars>>

\* the four public queries on the constructed object
ScheduleQuery ==
    /\ spc = "built"
    /\ totals' = <<[dry_time |-> dry_time(self[1]),
                    monitoring_hours |-> monitoring_hours(self[1]),
                    after_hours |-> after_hours(self[1]),
                    total_monitoring_hours |-> total_monitoring_hours(self[1])]>>
    /\ spc' = "done"
    /\ UNCHANGED <<start_date, end_date, monitored_entries, k, by_day, self, raised>>
    /\ UNCHANGED <<hvars, wvars, pvars>>

SNext == ScheduleRaise \/ ScheduleBegin \/ ScheduleLoop \/ ScheduleStore \/ ScheduleQuery

SpecSchedule == SInit /\ [][SNext]_vars

\* --------------------------------------- specification: is_normal_window
WInit ==
    /\ wd \in WeekDates
    /\ wt \in WindowTimes
    /\ wret = <<>>
    /\ HandlerIdle /\ ScheduleIdle /\ ParseIdle

WindowCall ==
    /\ wret = <<>>
    /\ wret' = <<is_normal_window(wd, wt)>>
    /\ UNCHANGED <<wd, wt, hvars, svars, pvars>>

SpecWindow == WInit /\ [][WindowCall]_vars

\* ---------------------------------------- specification: parse_date_time
\* 09/18/2025, 02/29/2025 (no such day), 13/40/2025, 0700, 2400, other text
Words == {<<9, 18, 2025>>, <<2, 29, 2025>>, <<13, 40, 2025>>, <<7, 0>>, <<24, 0>>, <<>>}

PInit ==
    /\ entry_str \in SeqsUpTo(Words, MaxWords)
    /\ pret = <<>>
    /\ HandlerIdle /\ ScheduleIdle /\ WindowIdle

ParseCall ==
    /\ pret = <<>>
    /\ pret' = parse_date_time(entry_str)
    /\ UNCHANGED <<entry_str, hvars, svars, wvars>>

SpecParse == PInit /\ [][ParseCall]_vars

\* -------------------------------------- specification: Calculate handler
\* [p.strip() for p in s.split(",") if p.strip()]
load_entries_from_text(s) == SelectSeq(s, LAMBDA p : p # <<>>)

\* [ln.strip() for ln in lines if ln.strip()]
load_entries_from_file(lines) == SelectSeq(lines, LAMBDA ln : ln # <<>>)

\* faulty variant: only the first failure is recorded, later tokens are dropped
parse_step_first(ps, es, p) ==
    LET r == parse_date_time(p)
    IN  IF es # <<>> THEN <<ps, es>>
        ELSE IF r[3] # None THEN <<ps, Append(es, <<p, r[3]>>)>>
        ELSE <<Append(ps, <<r[1], r[2]>>), es>>

\* lines 129-132: the token p goes to errors or to parsed
parse_step(ps, es, p) ==
    LET r == parse_date_time(p)
    IN  IF r[3] # None THEN <<ps, Append(es, <<p, r[3]>>)>>
        ELSE <<Append(ps, <<r[1], r[2]>>), es>>

\* (d, t) < (d', t') raises TypeError: equal dates, then None against a time
pair_lt_raises(p, q) == p[1] = q[1] /\ p[2] # q[2] /\ (p[2] = None \/ q[2] = None)

pair_lt(p, q) == TupleLT(p[1], q[1]) \/ (p[1] = q[1] /\ TupleLT(p[2], q[2]))

sorted_raises(ps) ==
    \E i, j \in 1..Len(ps) : pair_lt_raises(ps[i], ps[j])

RECURSIVE insert_pair(_, _)
insert_pair(ps, p) ==
    IF ps = <<>> THEN <<p>>
    ELSE IF pair_lt(p, Head(ps)) THEN <<p>> \o ps
    ELSE <<Head(ps)>> \o insert_pair(Tail(ps), p)

\* sorted(out_range) when no comparison raises (stable)
RECURSIVE sorted_pairs(_)
sorted_pairs(ps) ==
    IF ps = <<>> THEN <<>>
    ELSE insert_pair(sorted_pairs(SubSeq(ps, 1, Len(ps) - 1)), ps[Len(ps)])

select_in_range(ps, s, e) == SelectSeq(ps, LAMBDA p : InRange(s, p[1], e))

select_out_range(ps, s, e) == SelectSeq(ps, LAMBDA p : ~InRange(s, p[1], e))

\* the dates a token of the handler's input names
TokenDates == {<<2025, 9, 18>>, <<2025, 9, 19>>}
DateWord(dt) == <<dt[2], dt[3], dt[1]>>
Segments ==
    {<<>>, << <<13, 40, 2025>> >>,
     << <<9, 18, 2025>>, <<24, 0>> >>,
     << <<9, 18, 2025>>, <<7, 0>>, <<18, 0>> >>}
    \cup {<<DateWord(dt)>> : dt \in TokenDates}
    \cup {<<DateWord(dt), <<7, 0>> >> : dt \in TokenDates}

HInit ==
    /\ start \in Dates
    /\ end \in Dates
    /\ source \in {"file", "text"}
    /\ segments \in SeqsUpTo(Segments, MaxTokens)
    /\ raw_parts = IF source = "file" THEN load_entries_from_file(segments)
                   ELSE load_entries_from_text(segments)
    /\ pc = "button" /\ idx = 0 /\ parsed = <<>> /\ errors = <<>>
    /\ in_range = <<>> /\ out_range = <<>> /\ st_errors = <<>>
    /\ ignored = <<>> /\ sched = <<>> /\ results = <<>> /\ exc = "none"
    /\ ScheduleIdle /\ WindowIdle /\ ParseIdle

\* lines 120-121
CalcRangeError ==
    /\ pc = "button"
    /\ TupleLT(end, start)
    /\ st_errors' = Append(st_errors, "End date must be the same or after start date.")
    /\ pc' = "done"
    /\ UNCHANGED <<start, end, source, segments, raw_parts, idx, parsed, errors,
                   in_range, out_range, ignored, sched, results, exc>>
    /\ UNCHANGED <<svars, wvars, pvars>>

\* lines 122-123
CalcNoEntries ==
    /\ pc = "button"
    /\ ~TupleLT(end, start)
    /\ raw_parts = <<>>
    /\ st_errors' = Append(st_errors, "Please provide at least one monitored date.")
    /\ pc' = "done"
    /\ UNCHANGED <<start, end, source, segments, raw_parts, idx, parsed, errors,
                   in_range, out_range, ignored, sched, results, exc>>
    /\ UNCHANGED <<svars, wvars, pvars>>

\* lines 124-126
CalcBegin ==
    /\ pc = "button"
    /\ ~TupleLT(end, start)
    /\ raw_parts # <<>>
    /\ parsed' = <<>>
    /\ errors' = <<>>
    /\ idx' = 1
    /\ pc' = "parse"
    /\ UNCHANGED <<start, end, source, segments, raw_parts,
                   in_range, out_range, st_errors, ignored, sched, results, exc>>
    /\ UNCHANGED <<svars, wvars, pvars>>

\* lines 127-132: one iteration of the loop over raw_parts
ParseToken ==
    /\ pc = "parse"
    /\ idx <= Len(raw_parts)
    /\ parsed' = parse_step(parsed, errors, raw_parts[idx])[1]
    /\ errors' = parse_step(parsed, errors, raw_parts[idx])[2]
    /\ idx' = idx + 1
    /\ UNCHANGED <<start, end, source, segments, raw_parts, pc,
                   in_range, out_range, st_errors, ignored, sched, results, exc>>
    /\ UNCHANGED <<svars, wvars, pvars>>

\* lines 134-135
ReportErrors ==
    /\ pc = "parse"
    /\ idx > Len(raw_parts)
    /\ errors # <<>>
    /\ st_errors' = Append(st_errors, "Some entries were invalid:")
    /\ pc' = "done"
    /\ UNCHANGED <<start, end, source, segments, raw_parts, idx, parsed, errors,
                   in_range, out_range, ignored, sched, results, exc>>
    /\ UNCHANGED <<svars, wvars, pvars>>

\* lines 136-138
Partition ==
    /\ pc = "parse"
    /\ idx > Len(raw_parts)
    /\ errors = <<>>
    /\ in_range' = select_in_range(parsed, start, end)
    /\ out_range' = select_out_range(parsed, start, end)
    /\ pc' = "ignored"
    /\ UNCHANGED <<start, end, source, segments, raw_parts, idx, parsed, errors,
                   st_errors, ignored, sched, results, exc>>
    /\ UNCHANGED <<svars, wvars, pvars>>

\* line 140: nothing was out of range
NoneIgnored ==
    /\ pc = "ignored"
    /\ out_range = <<>>
    /\ pc' = "compute"
    /\ UNCHANGED <<start, end, source, segments, raw_parts, idx, parsed, errors,
                   in_range, out_range, st_errors, ignored, sched, results, exc>>
    /\ UNCHANGED <<svars, wvars, pvars>>

\* lines 140-144: the ignored entries are listed in sorted order
ShowIgnored ==
    /\ pc = "ignored"
    /\ out_range # <<>>
    /\ ~sorted_raises(out_range)
    /\ ignored' = sorted_pairs(out_range)
    /\ pc' = "compute"
    /\ UNCHANGED <<start, end, source, segments, raw_parts, idx, parsed, errors,
                   in_range, out_range, st_errors, sched, results, exc>>
    /\ UNCHANGED <<svars, wvars, pvars>>

\* line 142: sorted(out_range) compares None with a time; the script run aborts
IgnoredTypeError ==
    /\ pc = "ignored"
    /\ out_range # <<>>
    /\ sorted_raises(out_range)
    /\ exc' = "TypeError"
    /\ pc' = "aborted"
    /\ UNCHANGED <<start, end, source, segments, raw_parts, idx, parsed, errors,
                   in_range, out_range, st_errors, ignored, sched, results>>
    /\ UNCHANGED <<svars, wvars, pvars>>

\* lines 146-147
NoValidDates ==
    /\ pc = "compute"
    /\ in_range = <<>>
    /\ st_errors' = Append(st_errors, "No valid monitored dates within the date range.")
    /\ pc' = "done"
    /\ UNCHANGED <<start, end, source, segments, raw_parts, idx, parsed, errors,
                   in_range, out_range, ignored, sched, results, exc>>
    /\ UNCHANGED <<svars, wvars, pvars>>

\* lines 149-165
ShowResults ==
    /\ pc = "compute"
    /\ in_range # <<>>
    /\ IF end_before_start(start, end)
       THEN /\ exc' = "ValueError"
            /\ pc' = "aborted"
            /\ UNCHANGED <<sched, results>>
       ELSE LET obj == Schedule(start, end, in_range)
            IN  /\ sched' = <<obj>>
                /\ results' = <<[dry_time |-> dry_time(obj),
                                 normal |-> monitoring_hours(obj),
                                 after |-> after_hours(obj),
                                 total |-> total_monitoring_hours(obj),
                                 counted |-> [i \in 1..Len(obj.entries) |->
                                     <<obj.entries[i].d, obj.entries[i].t,
                                       IF is_normal_window(obj.entries[i].d, obj.entries[i].t)
                                       THEN "Normal" ELSE "After">>]]>>
                /\ pc' = "done"
                /\ exc' = exc
    /\ UNCHANGED <<start, end, source, segments, raw_parts, idx, parsed, errors,
                   in_range, out_range, st_errors, ignored>>
    /\ UNCHANGED <<svars, wvars, pvars>>

Next ==
    \/ CalcRangeError \/ CalcNoEntries \/ CalcBegin \/ ParseToken
    \/ ReportErrors \/ Partition \/ NoneIgnored \/ ShowIgnored \/ IgnoredTypeError
    \/ NoValidDates \/ ShowResults

Init == HInit

Spec == Init /\ [][Next]_vars

\* ================================================================= claims
\* vocabulary of the statements, independent of the operators they judge
Ord(dt) == ToOrdinal(dt)
Within(d) == Ord(start_date) <= Ord(d) /\ Ord(d) <= Ord(end_date)
Constructed == spc \in {"built", "done"}
Stored == self[1].entries
Minutes(t) == 60 * t[1] + t[2]
NormalWindow(d, t) ==
    /\ Weekday(d) \in 0..4
    /\ (t = None \/ (Minutes(t) >= 480 /\ Minutes(t) < 1020))
Weight(i, n) == IF i = 1 \/ i = n THEN 4 ELSE 2

RECURSIVE SumOver(_, _, _)
SumOver(es, i, normal) ==
    IF i > Len(es) THEN 0
    ELSE (IF NormalWindow(es[i].d, es[i].t) = normal THEN Weight(i, Len(es)) ELSE 0)
         + SumOver(es, i + 1, normal)

\* C1: the entries stored by Schedule construction are strictly ascending by
\* date, hold at most one entry per date and only dates within
\* [start_date, end_date], and every in-range date of the input is stored.
C1_StoredEntries ==
    Constructed =>
        /\ \A i \in 1..(Len(Stored) - 1) : Ord(Stored[i].d) < Ord(Stored[i + 1].d)
        /\ \A i, j \in 1..Len(Stored) : Stored[i].d = Stored[j].d => i = j
        /\ \A i \in 1..Len(Stored) : Within(Stored[i].d)
        /\ \A j \in 1..Len(monitored_entries) :
               Within(monitored_entries[j][1]) =>
                   \E i \in 1..Len(Stored) : Stored[i].d = monitored_entries[j][1]

\* two in-range dates given in descending order, then a duplicate or an
\* out-of-range date, and two entries stored
C1_Witness ==
    /\ spc = "done"
    /\ Len(monitored_entries) = 3
    /\ Within(monitored_entries[1][1]) /\ Within(monitored_entries[2][1])
    /\ Ord(monitored_entries[2][1]) < Ord(monitored_entries[1][1])
    /\ \/ ~Within(monitored_entries[3][1])
       \/ monitored_entries[3][1] = monitored_entries[1][1]
    /\ Len(Stored) = 2

FirstOccurrence(d) ==
    CHOOSE j \in 1..Len(monitored_entries) :
        /\ monitored_entries[j][1] = d
        /\ \A i \in 1..(j - 1) : monitored_entries[i][1] # d

\* C2: deduplication is first-write-wins: the time stored for a date is the
\* time of the date's first occurrence in the input list.
C2_FirstWriteWins ==
    Constructed =>
        \A i \in 1..Len(Stored) :
            Stored[i].t = monitored_entries[FirstOccurrence(Stored[i].d)][2]

\* the spec's example: 09/18/2025 0700 then 09/18/2025 1800, 07:00 is kept
C2_Witness ==
    /\ spc = "done"
    /\ monitored_entries = << <<<<2025, 9, 18>>, <<7, 0>>>>, <<<<2025, 9, 18>>, <<18, 0>>>> >>
    /\ Len(Stored) = 1
    /\ Stored[1].t = <<7, 0>>

\* C4: the first and the last stored entry weigh 4 hours each, every other
\* entry 2 hours, normal-window entries add to monitoring_hours and the others
\* to after_hours; a single stored entry totals 4 hours; the total is the sum
\* of the two and of all weights.
C4_Weights ==
    spc = "done" =>
        /\ totals[1].monitoring_hours = SumOver(Stored, 1, TRUE)
        /\ totals[1].after_hours = SumOver(Stored, 1, FALSE)
        /\ totals[1].total_monitoring_hours
               = totals[1].monitoring_hours + totals[1].after_hours
        /\ totals[1].total_monitoring_hours
               = IF Len(Stored) = 0 THEN 0
                 ELSE IF Len(Stored) = 1 THEN 4
                 ELSE 8 + 2 * (Len(Stored) - 2)
        /\ Len(Stored) = 1 => totals[1].total_monitoring_hours = 4

\* a single stored entry, counted once
C4_Witness ==
    /\ spc = "done"
    /\ Len(Stored) = 1
    /\ totals[1].total_monitoring_hours = 4

Example ==
    /\ start_date = <<2025, 9, 18>>
    /\ end_date = <<2025, 9, 20>>
    /\ monitored_entries = << <<<<2025, 9, 18>>, <<7, 0>>>>,
                              <<<<2025, 9, 19>>, <<18, 0>>>>,
                              <<<<2025, 9, 20>>, None>> >>

\* C5 as stated: the example yields monitoring_hours 4, after_hours 6,
\* total 10 and dry_time 2, its last entry (09/20/2025) being a weekday entry.
C5_AsStated ==
    (spc = "done" /\ Example) =>
        /\ totals[1].monitoring_hours = 4
        /\ totals[1].after_hours = 6
        /\ totals[1].total_monitoring_hours = 10
        /\ totals[1].dry_time = 2

\* C5 amended: 09/20/2025 is a Saturday, so the example yields
\* monitoring_hours 0, after_hours 10, total 10 and dry_time 2.
C5_Amended ==
    (spc = "done" /\ Example) =>
        /\ Weekday(<<2025, 9, 20>>) = 5
        /\ Len(Stored) = 3
        /\ totals[1].monitoring_hours = 0
        /\ totals[1].after_hours = 10
        /\ totals[1].total_monitoring_hours = 10
        /\ totals[1].dry_time = 2

C5_Witness == spc = "done" /\ Example /\ totals[1].after_hours = 10

\* C6: construction raises exactly when end_date < start_date, before any
\* entry is examined or stored; a constructed Schedule has
\* end_date >= start_date and dry_time = the days from start to end, >= 0.
C6_RangeError ==
    /\ (spc # "new" /\ Ord(end_date) < Ord(start_date)) =>
           (spc = "raised" /\ raised = "ValueError")
    /\ spc = "raised" => (k = 0 /\ by_day = <<>> /\ self = <<>> /\ totals = <<>>)
    /\ Ord(end_date) >= Ord(start_date) => (raised = "none" /\ spc # "raised")
    /\ Constructed =>
           /\ Ord(self[1].end_date) >= Ord(self[1].start_date)
           /\ self[1].start_date = start_date /\ self[1].end_date = end_date
    /\ spc = "done" =>
           /\ totals[1].dry_time = Ord(end_date) - Ord(start_date)
           /\ totals[1].dry_time >= 0

\* the range error raised on a list that does hold entries
C6_Witness ==
    /\ spc = "raised"
    /\ raised = "ValueError"
    /\ Len(monitored_entries) = 3

\* C9: with an empty entry list, or one of out-of-range dates only, all three
\* hour totals are 0 and dry_time is the days from start_date to end_date.
C9_NothingInRange ==
    (spc = "done" /\ \A j \in 1..Len(monitored_entries) : ~Within(monitored_entries[j][1])) =>
        /\ totals[1].monitoring_hours = 0
        /\ totals[1].after_hours = 0
        /\ totals[1].total_monitoring_hours = 0
        /\ totals[1].dry_time = Ord(end_date) - Ord(start_date)

\* two entries, both before the range, over a range of one day
C9_Witness ==
    /\ spc = "done"
    /\ Len(monitored_entries) = 2
    /\ \A j \in 1..2 : Ord(monitored_entries[j][1]) < Ord(start_date)
    /\ totals[1].dry_time = 1
    /\ totals[1].total_monitoring_hours = 0

\* Monday..Friday of the week 09/15/2025 .. 09/21/2025, read off the calendar
MonToFri(d) == d \in {<<2025, 9, dd>> : dd \in 15..19}

\* C3: is_normal_window(d, t) is true exactly when d is Monday..Friday and
\* t is absent or 08:00 <= t < 17:00.
C3_NormalWindow ==
    wret # <<>> =>
        wret[1] = (MonToFri(wd) /\ (wt = None \/ (Minutes(wt) >= 480 /\ Minutes(wt) < 1020)))

\* a Wednesday at exactly 17:00 is after-hours
C3_Witness == wret = <<FALSE>> /\ wd = <<2025, 9, 17>> /\ wt = <<17, 0>>

Returned == pret # <<>>

\* C7 as stated: every token of more than two parts gets the "Bad entry" error.
C7_AsStated ==
    (Returned /\ Len(entry_str) > 2) =>
        (pret[3] # None /\ pret[3][1] = "Bad entry")

\* C7 amended: a token of more than two parts gets the "Bad entry" error when
\* its first part is a valid date, and the "Invalid date" error naming the
\* first part when it is not; no date or time is returned either way.
C7_Amended ==
    (Returned /\ Len(entry_str) > 2) =>
        /\ pret[1] = None /\ pret[2] = None /\ pret[3] # None
        /\ IF entry_str[1] = <<9, 18, 2025>>
           THEN pret[3][1] = "Bad entry" /\ pret[3][2] = entry_str
           ELSE pret[3][1] = "Invalid date" /\ pret[3][2] = entry_str[1]

\* "09/18/2025 0700 2400": a valid date followed by two more parts
C7_Witness ==
    /\ Returned
    /\ entry_str = << <<9, 18, 2025>>, <<7, 0>>, <<24, 0>> >>
    /\ pret[3][1] = "Bad entry"

Fails(p) == parse_date_time(p)[3] # None
Passes(p) == parse_date_time(p)[3] = None

\* C8: the parse loop puts every token into exactly one of parsed and errors,
\* in input order, a date-only token with no time, and runs to the last token
\* whatever failed before.
C8_Batch ==
    idx >= 1 =>
        LET seen == SubSeq(raw_parts, 1, idx - 1)
            good == SelectSeq(seen, Passes)
            bad == SelectSeq(seen, Fails)
        IN  /\ Len(parsed) + Len(errors) = idx - 1
            /\ Len(parsed) = Len(good)
            /\ \A i \in 1..Len(good) :
                   /\ parsed[i][1] = parse_date_time(good[i])[1]
                   /\ parsed[i][2] = parse_date_time(good[i])[2]
                   /\ parsed[i][1] # None
                   /\ Len(good[i]) = 1 => parsed[i][2] = None
            /\ Len(errors) = Len(bad)
            /\ \A i \in 1..Len(bad) :
                   /\ errors[i][1] = bad[i]
                   /\ errors[i][2] = parse_date_time(bad[i])[3]
            /\ pc # "parse" => idx - 1 = Len(raw_parts)

\* three tokens, the first and the last invalid, the middle one parsed
C8_Witness ==
    /\ pc = "done"
    /\ Len(raw_parts) = 3
    /\ Len(errors) = 2 /\ Len(parsed) = 1
    /\ errors[1][1] = raw_parts[1]
    /\ errors[2][1] = raw_parts[3]

Ended == pc \in {"done", "aborted"}
Shown == results # <<>>

\* C10: every run of the handler ends either with the results displayed or
\* with exactly one error message; results need end >= start, a non-empty
\* batch, no parse failure and an in-range entry, otherwise no Schedule is
\* built; the constructor's range error never escapes; when results are shown,
\* in_range and out_range partition parsed and only in-range entries count.
C10_AsStated ==
    Ended =>
        /\ \/ (Shown /\ st_errors = <<>>)
           \/ (~Shown /\ Len(st_errors) = 1)
        /\ exc = "none"
        /\ ~Shown => sched = <<>>
        /\ Shown =>
               /\ Ord(end) >= Ord(start)
               /\ raw_parts # <<>>
               /\ errors = <<>>
               /\ \E i \in 1..Len(parsed) :
                      Ord(start) <= Ord(parsed[i][1]) /\ Ord(parsed[i][1]) <= Ord(end)
               /\ Len(in_range) + Len(out_range) = Len(parsed)
               /\ \A i \in 1..Len(in_range) :
                      Ord(start) <= Ord(in_range[i][1]) /\ Ord(in_range[i][1]) <= Ord(end)
               /\ \A i \in 1..Len(out_range) :
                      Ord(out_range[i][1]) < Ord(start) \/ Ord(end) < Ord(out_range[i][1])
               /\ \A i \in 1..Len(results[1].counted) :
                      \E j \in 1..Len(in_range) : results[1].counted[i][1] = in_range[j][1]

====
